---- MODULE Spec2Model ----
(***************************************************************************)
(* A model of LibreChat's OpenAI endpoint initialisation                   *)
(* (api/server/services/Endpoints/openAI/initialize.js) and of the user    *)
(* key routes (api/server/routes/keys.js).                                 *)
(*                                                                         *)
(* JavaScript values are encoded as follows.  A string-valued slot holds   *)
(* a string, or one of the markers Undefined, Null, JsTrue, JsFalse; the   *)
(* marker Absent stands for a property an object literal does not have     *)
(* (it matters for object spread, which copies own properties only).  An   *)
(* optional number or object is a sequence: <<>> is undefined, <<v>> is    *)
(* the value v.  A header map is a function from header names to strings.  *)
(* A model name is the sequence of its characters, so that                 *)
(* String.prototype.includes is computed, not assumed.                     *)
(***************************************************************************)
EXTENDS Integers, Sequences, FiniteSets, TLC

VARIABLES
    env,        \* process.env, read by initializeClient
    locals,     \* req.app.locals, loaded once at start-up
    pc,         \* per request slot: "idle" or "done"
    req,        \* per request slot: the arguments of initializeClient
    out,        \* per request slot: what initializeClient returned or threw
    stream,     \* per request slot: tokens produced / delivered, delays slept
    keyStore,   \* the user key store behind UserService
    lastCall    \* the last /keys request and its response

vars == <<env, locals, pc, req, out, stream, keyStore, lastCall>>

(***************************************************************************)
(* JavaScript values                                                       *)
(***************************************************************************)
Undefined == "<undefined>"
Null == "<null>"
Absent == "<absent>"
JsTrue == "<true>"
JsFalse == "<false>"

\* !!v for a string-valued slot
Truthy(v) == v \notin {Undefined, Null, JsFalse, ""}

\* a ?? b
Coalesce(a, b) == IF a \in {Undefined, Null} THEN b ELSE a

\* { k: d, ...o } read at k, where own is o's own property k (or Absent)
Spread(d, own) == IF own = Absent THEN d ELSE own

\* !!n for an optional number
NumTruthy(n) == n # <<>> /\ n[1] # 0

\* a ?? b for optional numbers
NumCoalesce(a, b) == IF a = <<>> THEN b ELSE a

\* { ...a, ...b } for header maps: b's entries win
MergeHeaders(a, b) == b @@ a

RECURSIVE IncludesFrom(_, _, _)
IncludesFrom(s, sub, i) ==
    IF i + Len(sub) - 1 > Len(s) THEN FALSE
    ELSE IF SubSeq(s, i, i + Len(sub) - 1) = sub THEN TRUE
    ELSE IncludesFrom(s, sub, i + 1)

\* String.prototype.includes: case-sensitive literal containment
Includes(s, sub) == IncludesFrom(s, sub, 1)

(***************************************************************************)
(* The user key routes                                                     *)
(***************************************************************************)
Users == {"u1", "u2"}
KeyNames == {"openAI", "openai", "anthropic"}
KeyValues == {"k1", "k2"}
NoKey == "<none>"
AllParams == {Undefined, "", "true", "TRUE", "1"}

\* UserService.updateUserKey: upsert the record of (userId, name)
updateUserKey(store, args) ==
    [store EXCEPT ![<<args.userId, args.name>>] = args.value]

\* UserService.deleteUserKey: one named record, or with all every record of userId
deleteUserKey(store, args) ==
    IF args.all
    THEN [k \in DOMAIN store |-> IF k[1] = args.userId THEN NoKey ELSE store[k]]
    ELSE [store EXCEPT ![<<args.userId, args.name>>] = NoKey]

\* UserService.getUserKeyExpiry: the record's expiry payload
getUserKeyExpiry(store, args) ==
    IF store[<<args.userId, args.name>>] = NoKey THEN Null ELSE "expiresAt"

\* { userId: req.user.id, ...req.body }
PutArgs(caller, body) ==
    [userId |-> Spread(caller, body.userId), name |-> body.name, value |-> body.value]

\* req.body.name === 'openAI'
IsLockedProviderLoose(name) == name \in {"openAI", "openai"}
IsLockedProvider(name) == name = "openAI"

\* all !== 'true'
AllIsNotTrueLoose(all) == all \notin {"true", "TRUE", "1"}
AllIsNotTrue(all) == all # "true"

PutBodies ==
    [name : KeyNames, value : KeyValues, userId : {Absent} \cup Users]

\* router.put('/')
PutKey(caller, body) ==
    /\ IF IsLockedProvider(body.name)
       THEN /\ keyStore' = keyStore
            /\ lastCall' = [route |-> "PUT /", caller |-> caller, name |-> body.name,
                            arg |-> body.userId, value |-> body.value, status |-> 403,
                            before |-> keyStore, calls |-> <<>>]
       ELSE /\ keyStore' = updateUserKey(keyStore, PutArgs(caller, body))
            /\ lastCall' = [route |-> "PUT /", caller |-> caller, name |-> body.name,
                            arg |-> body.userId, value |-> body.value, status |-> 201,
                            before |-> keyStore, calls |-> <<"updateUserKey">>]
    /\ UNCHANGED <<env, locals, pc, req, out, stream>>

\* router.delete('/:name')
DeleteKey(caller, name) ==
    /\ keyStore' = deleteUserKey(keyStore, [userId |-> caller, name |-> name, all |-> FALSE])
    /\ lastCall' = [route |-> "DELETE /:name", caller |-> caller, name |-> name,
                    arg |-> Absent, value |-> Absent, status |-> 204,
                    before |-> keyStore, calls |-> <<"deleteUserKey">>]
    /\ UNCHANGED <<env, locals, pc, req, out, stream>>

\* router.delete('/')
DeleteAllKeys(caller, all) ==
    /\ IF AllIsNotTrue(all)
       THEN /\ keyStore' = keyStore
            /\ lastCall' = [route |-> "DELETE /", caller |-> caller, name |-> Absent,
                            arg |-> all, value |-> Absent, status |-> 400,
                            before |-> keyStore, calls |-> <<>>]
       ELSE /\ keyStore' = deleteUserKey(keyStore, [userId |-> caller, name |-> Absent, all |-> TRUE])
            /\ lastCall' = [route |-> "DELETE /", caller |-> caller, name |-> Absent,
                            arg |-> all, value |-> Absent, status |-> 204,
                            before |-> keyStore, calls |-> <<"deleteUserKey">>]
    /\ UNCHANGED <<env, locals, pc, req, out, stream>>

\* router.get('/')
GetKey(caller, name) ==
    /\ keyStore' = keyStore
    /\ lastCall' = [route |-> "GET /", caller |-> caller, name |-> name,
                    arg |-> Absent,
                    value |-> getUserKeyExpiry(keyStore, [userId |-> caller, name |-> name]),
                    status |-> 200, before |-> keyStore, calls |-> <<"getUserKeyExpiry">>]
    /\ UNCHANGED <<env, locals, pc, req, out, stream>>

(***************************************************************************)
(* initializeClient: collaborators                                         *)
(***************************************************************************)
EModelEndpoint == [openAI |-> "openAI", azureOpenAI |-> "azureOpenAI"]

\* const userProvidesKey = false
userProvidesKey == FALSE

\* const userProvidesURL = false
userProvidesURL == FALSE

\* ~/server/utils isEnabled: an environment flag is on when it reads "true"
isEnabled(v) == v = "true"

\* the literal 'gpt-4'
Gpt4 == <<"g", "p", "t", "-", "4">>

NoError == [type |-> "none"]

\* librechat-data-provider mapModelToAzureConfig
mapModelToAzureConfig(modelName, modelGroupMap, groupMap) ==
    IF modelName \notin DOMAIN modelGroupMap
    THEN [error |-> [type |-> "UnknownModel"]]
    ELSE IF modelGroupMap[modelName].group \notin DOMAIN groupMap
    THEN [error |-> [type |-> "UnknownGroup"]]
    ELSE LET g == groupMap[modelGroupMap[modelName].group]
         IN [error |-> NoError,
             azureOptions |-> [azureOpenAIApiKey |-> g.apiKey,
                               azureOpenAIApiInstanceName |-> g.instanceName,
                               azureOpenAIApiDeploymentName |-> g.deploymentName,
                               azureOpenAIApiVersion |-> g.version],
             baseURL |-> g.baseURL,
             headers |-> g.additionalHeaders,
             serverless |-> g.serverless]

\* librechat-data-provider resolveHeaders: every header is kept, a value that
\* is an environment placeholder is replaced by the variable's value
resolveHeaders(headers, e) ==
    [k \in DOMAIN headers |->
        IF headers[k] = "${AZURE_API_KEY}" /\ e.AZURE_API_KEY # Undefined
        THEN e.AZURE_API_KEY ELSE headers[k]]

\* ~/utils getAzureCredentials: the process-wide Azure defaults
getAzureCredentials(e) ==
    [azureOpenAIApiKey |-> e.AZURE_API_KEY,
     azureOpenAIApiInstanceName |-> Undefined,
     azureOpenAIApiDeploymentName |-> Undefined,
     azureOpenAIApiVersion |-> Undefined]

\* ~/server/services/Endpoints/openAI/llm getLLMConfig: no callbacks of its own
getLLMConfig(apiKey, clientOptions) ==
    [llmConfig |-> [apiKey |-> apiKey,
                    model |-> clientOptions.modelOptions[1].model,
                    user |-> clientOptions.modelOptions[1].user,
                    streaming |-> TRUE],
     configOptions |-> [baseURL |-> clientOptions.reverseProxyUrl]]

(***************************************************************************)
(* initializeClient: the steps of the function, in source order            *)
(***************************************************************************)
AzureUnset == [is |-> "unset"]
AzureFalse == [is |-> "false"]
AzureOptions(o) == [is |-> "options", options |-> o]

\* overrideModel ?? req.body.model
ModelName(rq) ==
    IF rq.overrideModel # <<>> THEN rq.overrideModel[1] ELSE rq.body.model

\* overrideEndpoint ?? req.body.endpoint ?? EModelEndpoint.openAI
Endpoint(rq) ==
    Coalesce(rq.overrideEndpoint, Coalesce(rq.body.endpoint, EModelEndpoint.openAI))

\* the credentials table, which the function builds and never reads
credentials(e) ==
    [openAI |-> e.OPENAI_API_KEY, azureOpenAI |-> e.AZURE_API_KEY]

\* the base URL table, which the function builds and never reads
baseURLOptions(e) ==
    [openAI |-> e.OPENAI_REVERSE_PROXY, azureOpenAI |-> e.AZURE_OPENAI_BASEURL]

\* let apiKey = OPENROUTER_KEY
InitialApiKeyPerProvider(e, endpoint) ==
    IF endpoint \in DOMAIN credentials(e)
    THEN Coalesce(credentials(e)[endpoint], e.OPENROUTER_KEY)
    ELSE e.OPENROUTER_KEY
InitialApiKey(e, endpoint) == e.OPENROUTER_KEY

\* let baseURL = 'https://openrouter.ai/api/v1'
InitialBaseURLPerProvider(e, endpoint) ==
    IF endpoint \in DOMAIN baseURLOptions(e)
    THEN Coalesce(baseURLOptions(e)[endpoint], "https://openrouter.ai/api/v1")
    ELSE "https://openrouter.ai/api/v1"
InitialBaseURL(e, endpoint) == "https://openrouter.ai/api/v1"

\* let clientOptions = { contextStrategy, proxy, debug, reverseProxyUrl, ...endpointOption }
DefaultClientOptions(e, endpoint, eo) ==
    LET baseURL == InitialBaseURL(e, endpoint)
    IN [contextStrategy |->
            Spread(IF isEnabled(e.OPENAI_SUMMARIZE) THEN "summarize" ELSE Null,
                   eo.contextStrategy),
        proxy |-> Spread(Coalesce(e.PROXY, Null), eo.proxy),
        debug |-> Spread(IF isEnabled(e.DEBUG_OPENAI) THEN JsTrue ELSE JsFalse, eo.debug),
        reverseProxyUrl |->
            Spread(IF Truthy(baseURL) THEN baseURL ELSE Null, eo.reverseProxyUrl),
        headers |-> eo.headers,
        streamRate |-> eo.streamRate,
        model_parameters |-> eo.model_parameters,
        titleConvo |-> Undefined,
        titleModel |-> Undefined,
        titleMethod |-> Undefined,
        addParams |-> Undefined,
        dropParams |-> Undefined,
        forcePrompt |-> Undefined,
        azure |-> AzureUnset,
        defaultQuery |-> <<>>,
        modelOptions |-> <<>>]

\* const azureRate = modelName.includes('gpt-4') ? 30 : 17
azureRateSwapped(modelName) == IF Includes(modelName, Gpt4) THEN 17 ELSE 30
azureRate(modelName) == IF Includes(modelName, Gpt4) THEN 30 ELSE 17

\* clientOptions.azure = !serverless && azureOptions
AzureBlockAlways(serverless, azureOptions) == AzureOptions(azureOptions)
AzureBlock(serverless, azureOptions) ==
    IF Truthy(serverless) THEN AzureFalse ELSE AzureOptions(azureOptions)

\* clientOptions.headers ?? {}
HeadersOrEmpty(h) == IF h = <<>> THEN <<>> ELSE h[1]

\* the branch taken for the Azure endpoint with a deployment configuration
AzureGroupOverrides(e, clientOptions, azureConfig, modelName, mapped) ==
    LET groupName == azureConfig.modelGroupMap[modelName].group
        group == azureConfig.groupMap[groupName]
        apiKey == mapped.azureOptions.azureOpenAIApiKey
        headers == resolveHeaders(
                       MergeHeaders(HeadersOrEmpty(mapped.headers),
                                    HeadersOrEmpty(clientOptions.headers)), e)
        co == [clientOptions EXCEPT
                  !.reverseProxyUrl = Coalesce(mapped.baseURL, @),
                  !.headers = <<headers>>,
                  !.titleConvo = azureConfig.titleConvo,
                  !.titleModel = azureConfig.titleModel,
                  !.streamRate = NumCoalesce(azureConfig.streamRate, <<azureRate(modelName)>>),
                  !.titleMethod = Coalesce(azureConfig.titleMethod, "completion"),
                  !.addParams = group.addParams,
                  !.dropParams = group.dropParams,
                  !.forcePrompt = group.forcePrompt,
                  !.azure = AzureBlock(mapped.serverless, mapped.azureOptions)]
    IN [apiKey |-> apiKey,
        clientOptions |->
            IF mapped.serverless = JsTrue
            THEN [co EXCEPT
                     !.defaultQuery =
                         IF Truthy(mapped.azureOptions.azureOpenAIApiVersion)
                         THEN ("api-version" :> mapped.azureOptions.azureOpenAIApiVersion)
                         ELSE <<>>,
                     !.headers = <<("api-key" :> apiKey) @@ headers>>]
            ELSE co]

\* the branch taken for the Azure endpoint without a deployment configuration
AzureDefaultOverrides(e, clientOptions) ==
    LET azure == getAzureCredentials(e)
    IN [apiKey |-> azure.azureOpenAIApiKey,
        clientOptions |-> [clientOptions EXCEPT !.azure = AzureOptions(azure)]]

\* if (allConfig) { clientOptions.streamRate = allConfig.streamRate }
AllOverrideIfUnset(clientOptions, allConfig) ==
    IF allConfig # <<>> /\ clientOptions.streamRate = <<>>
    THEN [clientOptions EXCEPT !.streamRate = allConfig[1].streamRate]
    ELSE clientOptions
AllOverride(clientOptions, allConfig) ==
    IF allConfig # <<>>
    THEN [clientOptions EXCEPT !.streamRate = allConfig[1].streamRate]
    ELSE clientOptions

\* the app-level overrides: the openAI endpoint's, then the all-endpoints one
AppConfigOverrides(clientOptions, isAzureOpenAI, l) ==
    LET openAIConfig == l.openAI
        co == IF ~isAzureOpenAI /\ openAIConfig # <<>>
              THEN [clientOptions EXCEPT !.streamRate = openAIConfig[1].streamRate,
                                         !.titleModel = openAIConfig[1].titleModel]
              ELSE clientOptions
    IN AllOverride(co, l.all)

\* if (!apiKey) throw
ApiKeyMissingOnlyUndefined(apiKey) == apiKey = Undefined
ApiKeyMissing(apiKey) == ~Truthy(apiKey)

\* if (!clientOptions.streamRate) return options
ThrottleAlways(streamRate) == TRUE
Throttle(streamRate) == NumTruthy(streamRate)

\* the callback list of one throttled stream
ThrottleHook == [handleLLMNewToken |-> "sleep(clientOptions.streamRate)"]

\* the tail of the function: the credential checks, then the result
Finalize(rq, endpoint, modelName, apiKey, clientOptions, calls) ==
    IF userProvidesKey /\ ~Truthy(apiKey)
    THEN [kind |-> "throw", error |-> [type |-> "no_user_key"],
          endpoint |-> endpoint, calls |-> calls]
    ELSE IF ApiKeyMissing(apiKey)
    THEN [kind |-> "throw",
          error |-> [type |-> "Error", message |-> <<endpoint, " API Key not provided.">>],
          endpoint |-> endpoint, calls |-> calls]
    ELSE IF rq.optionsOnly
    THEN LET modelOptions == [rq.endpointOption.model_parameters EXCEPT
                                 !.model = modelName, !.user = rq.user]
             co == [clientOptions EXCEPT !.modelOptions = <<modelOptions>>,
                                         !.model_parameters = modelOptions]
             options == getLLMConfig(apiKey, co)
         IN [kind |-> "options", error |-> NoError, endpoint |-> endpoint,
             apiKey |-> apiKey, clientOptions |-> co,
             options |->
                 IF ~Throttle(co.streamRate) THEN options
                 ELSE [options EXCEPT
                          !.llmConfig = ("callbacks" :> <<ThrottleHook>>) @@ options.llmConfig],
             calls |-> Append(calls, "getLLMConfig")]
    ELSE [kind |-> "client", error |-> NoError, endpoint |-> endpoint,
          apiKey |-> apiKey, clientOptions |-> clientOptions,
          calls |-> Append(calls, "OpenAIClient")]

\* initializeClient({ req, res, endpointOption, optionsOnly, overrideEndpoint, overrideModel })
initializeClient(e, l, rq) ==
    LET modelName == ModelName(rq)
        endpoint == Endpoint(rq)
        apiKey == InitialApiKey(e, endpoint)
        clientOptions == DefaultClientOptions(e, endpoint, rq.endpointOption)
        isAzureOpenAI == endpoint = EModelEndpoint.azureOpenAI
        azureConfig == IF isAzureOpenAI THEN l.azureOpenAI ELSE <<>>
    IN IF isAzureOpenAI /\ azureConfig # <<>>
       THEN LET mapped == mapModelToAzureConfig(modelName, azureConfig[1].modelGroupMap,
                                                azureConfig[1].groupMap)
            IN IF mapped.error # NoError
               THEN [kind |-> "throw", error |-> mapped.error, endpoint |-> endpoint,
                     calls |-> <<"mapModelToAzureConfig">>]
               ELSE LET a == AzureGroupOverrides(e, clientOptions, azureConfig[1],
                                                 modelName, mapped)
                    IN Finalize(rq, endpoint, modelName, a.apiKey,
                              AppConfigOverrides(a.clientOptions, isAzureOpenAI, l),
                              <<"mapModelToAzureConfig", "resolveHeaders">>)
       ELSE IF isAzureOpenAI
       THEN IF userProvidesKey
            THEN [kind |-> "throw", error |-> [type |-> "TypeError"],
                  endpoint |-> endpoint, calls |-> <<>>]
            ELSE LET a == AzureDefaultOverrides(e, clientOptions)
                 IN Finalize(rq, endpoint, modelName, a.apiKey,
                           AppConfigOverrides(a.clientOptions, isAzureOpenAI, l),
                           <<"getAzureCredentials">>)
       ELSE Finalize(rq, endpoint, modelName, apiKey,
                   AppConfigOverrides(clientOptions, isAzureOpenAI, l), <<>>)

(***************************************************************************)
(* The inputs: environments, app configurations and requests               *)
(***************************************************************************)
MaxTokens == 2

Slots == {1, 2}
Tokens == {"Hel", "lo"}

ModelGpt4Turbo == <<"g", "p", "t", "-", "4", "-", "t", "u", "r", "b", "o">>
ModelGpt35 == <<"g", "p", "t", "-", "3", ".", "5">>
ModelUpper == <<"G", "P", "T", "-", "4">>
ModelInfix == <<"m", "y", "-", "g", "p", "t", "-", "4">>
ModelOrphan == <<"o", "r", "p", "h", "a", "n">>
ModelUnknown == <<"u", "n", "k", "n", "o", "w", "n">>

EnvBase ==
    [OPENROUTER_KEY |-> "sk-or-relay", OPENAI_API_KEY |-> Undefined,
     AZURE_API_KEY |-> Undefined, OPENAI_REVERSE_PROXY |-> Undefined,
     AZURE_OPENAI_BASEURL |-> Undefined, PROXY |-> Undefined,
     DEBUG_OPENAI |-> Undefined, OPENAI_SUMMARIZE |-> Undefined]

GroupBase ==
    [apiKey |-> "az-g1-key", instanceName |-> "inst", deploymentName |-> "dep",
     version |-> "2024-02-01", baseURL |-> Undefined, additionalHeaders |-> <<>>,
     serverless |-> JsFalse, addParams |-> "add-g1", dropParams |-> "drop-g1",
     forcePrompt |-> JsFalse, streamRate |-> <<>>]

AzureConfig(streamRate, group) ==
    [modelGroupMap |->
         [m \in {ModelGpt4Turbo, ModelGpt35, ModelUpper, ModelInfix, ModelOrphan} |->
             [group |-> IF m = ModelOrphan THEN "g9" ELSE "g1"]],
     groupMap |-> ("g1" :> group),
     titleConvo |-> JsTrue, titleModel |-> "gpt-title", titleMethod |-> Undefined,
     streamRate |-> streamRate]

LocalsBase == [azureOpenAI |-> <<>>, openAI |-> <<>>, all |-> <<>>]

EoBase ==
    [reverseProxyUrl |-> Absent, proxy |-> Absent, debug |-> Absent,
     contextStrategy |-> Absent, headers |-> <<>>, streamRate |-> <<>>,
     model_parameters |-> [temperature |-> "1", model |-> Undefined, user |-> Undefined]]

ReqBase ==
    [body |-> [endpoint |-> Undefined, model |-> ModelGpt4Turbo, key |-> Undefined],
     user |-> "u1", optionsOnly |-> FALSE, overrideEndpoint |-> Undefined,
     overrideModel |-> <<>>, endpointOption |-> EoBase]

\* which credential is configured where
ConfigsCredential ==
    { [env |-> [EnvBase EXCEPT !.OPENROUTER_KEY = k, !.OPENAI_API_KEY = o,
                               !.AZURE_API_KEY = a],
       locals |-> [LocalsBase EXCEPT !.azureOpenAI = z]] :
        k \in {Undefined, "", "sk-or-relay"}, o \in {Undefined, "sk-openai"},
        a \in {Undefined, "az-env-key"},
        z \in {<<>>, <<AzureConfig(<<>>, GroupBase)>>,
               <<AzureConfig(<<>>, [GroupBase EXCEPT !.apiKey = ""])>>} }

\* the environment defaults of ClientOptions
ConfigsDefaults ==
    { [env |-> [EnvBase EXCEPT !.OPENAI_REVERSE_PROXY = p, !.AZURE_OPENAI_BASEURL = b,
                               !.PROXY = x, !.DEBUG_OPENAI = d, !.OPENAI_SUMMARIZE = s],
       locals |-> [LocalsBase EXCEPT !.azureOpenAI = z]] :
        p \in {Undefined, "https://openai-proxy.example/v1"},
        b \in {Undefined, "https://azure-base.example"},
        x \in {Undefined, "http://proxy:8080"},
        d \in {Undefined, "true", "false"}, s \in {Undefined, "true"},
        z \in {<<>>, <<AzureConfig(<<>>, [GroupBase EXCEPT !.baseURL = "https://g1.example"])>>} }

\* the layers that set streamRate
ConfigsStreamRate ==
    { [env |-> EnvBase, locals |-> [azureOpenAI |-> z, openAI |-> o, all |-> a]] :
        z \in {<<>>} \cup
              { <<AzureConfig(zr, [GroupBase EXCEPT !.streamRate = gr])>> :
                    zr \in {<<>>, <<0>>, <<40>>}, gr \in {<<>>, <<50>>} },
        o \in {<<>>} \cup { <<[streamRate |-> r, titleModel |-> "gpt-3.5-turbo"]>> :
                               r \in {<<>>, <<12>>} },
        a \in {<<>>} \cup { <<[streamRate |-> r]>> : r \in {<<>>, <<9>>} } }

\* the deployment group's serverless settings
ConfigsServerless ==
    { [env |-> [EnvBase EXCEPT !.AZURE_API_KEY = "az-env-key"],
       locals |-> [LocalsBase EXCEPT !.azureOpenAI =
           <<AzureConfig(<<>>, [GroupBase EXCEPT !.serverless = sl, !.version = v,
                                                 !.apiKey = k, !.additionalHeaders = h,
                                                 !.baseURL = b])>>]] :
        sl \in {JsTrue, JsFalse, Undefined}, v \in {"", "2024-02-01"},
        k \in {"az-g1-key", "az-g1-key-b"},
        h \in {<<>>, <<("api-key" :> "group-header") @@ ("x-ms-region" :> "${AZURE_API_KEY}")>>},
        b \in {Undefined, "https://g1.example"} }

Configs == ConfigsCredential \cup ConfigsDefaults \cup ConfigsStreamRate \cup ConfigsServerless

RequestsCredential ==
    { [ReqBase EXCEPT !.overrideEndpoint = oe, !.body.endpoint = be, !.body.key = k,
                      !.body.model = m, !.user = u, !.optionsOnly = oo] :
        oe \in {Undefined, "azureOpenAI"}, be \in {Undefined, "openAI", "azureOpenAI"},
        k \in {Undefined, "2030-01-01"}, m \in {ModelGpt4Turbo, ModelUnknown},
        u \in Users, oo \in BOOLEAN }

RequestsDefaults ==
    { [ReqBase EXCEPT !.body.endpoint = be, !.optionsOnly = oo,
                      !.endpointOption.reverseProxyUrl = rp, !.endpointOption.proxy = x,
                      !.endpointOption.debug = d, !.endpointOption.contextStrategy = cs] :
        be \in {"openAI", "azureOpenAI", "custom"}, oo \in BOOLEAN,
        rp \in {Absent, Undefined, "https://user.example/v1"},
        x \in {Absent, "http://user-proxy:3128"}, d \in {Absent, JsTrue},
        cs \in {Absent, "discard"} }

RequestsStreamRate ==
    { [ReqBase EXCEPT !.body.endpoint = be, !.body.model = m, !.overrideModel = om,
                      !.optionsOnly = oo, !.endpointOption.streamRate = r] :
        be \in {"openAI", "azureOpenAI"},
        m \in {ModelGpt4Turbo, ModelGpt35, ModelUpper, ModelInfix, ModelOrphan},
        om \in {<<>>, <<ModelGpt35>>},
        oo \in BOOLEAN, r \in {<<>>, <<0>>, <<5>>} }

RequestsServerless ==
    { [ReqBase EXCEPT !.body.endpoint = "azureOpenAI", !.body.model = m,
                      !.optionsOnly = oo, !.endpointOption.headers = h] :
        m \in {ModelGpt4Turbo, ModelGpt35}, oo \in BOOLEAN,
        h \in {<<>>, <<("x-extra" :> "1")>>, <<("api-key" :> "user-header")>>} }

Requests ==
    RequestsCredential \cup RequestsDefaults \cup RequestsStreamRate \cup RequestsServerless

ConfigsConcurrent ==
    { [env |-> [EnvBase EXCEPT !.OPENROUTER_KEY = k, !.OPENAI_API_KEY = o],
       locals |-> [LocalsBase EXCEPT !.all = a]] :
        k \in {"", "sk-or-relay"}, o \in {Undefined, "sk-openai"},
        a \in {<<>>, <<[streamRate |-> <<9>>]>>} }

RequestsConcurrent ==
    { [ReqBase EXCEPT !.body.endpoint = be, !.body.key = k, !.user = u,
                      !.optionsOnly = oo, !.endpointOption.streamRate = r] :
        be \in {Undefined, "openAI"},
        k \in {Undefined, "2030-01-01"}, u \in Users, oo \in BOOLEAN,
        r \in {<<>>, <<5>>, <<25>>} }

EmptyStore == [k \in Users \X KeyNames |-> NoKey]

\* a key for the locked provider can only predate the lock
InitialStores == {EmptyStore, [EmptyStore EXCEPT ![<<"u1", "openAI">>] = "k1"]}

NoCall ==
    [route |-> "none", caller |-> Absent, name |-> Absent, arg |-> Absent,
     value |-> Absent, status |-> 0, before |-> EmptyStore, calls |-> <<>>]

NoRequest == ReqBase
NoOutcome == [kind |-> "none"]
NoStream == [produced |-> <<>>, delivered |-> <<>>, delays |-> <<>>]

(***************************************************************************)
(* The request life cycle                                                  *)
(***************************************************************************)
\* a handler calls initializeClient for the request in slot r
Call(r, rq) ==
    /\ pc[r] = "idle"
    /\ pc' = [pc EXCEPT ![r] = "done"]
    /\ req' = [req EXCEPT ![r] = rq]
    /\ out' = [out EXCEPT ![r] = initializeClient(env, locals, rq)]
    /\ stream' = [stream EXCEPT ![r] = NoStream]
    /\ UNCHANGED <<env, locals, keyStore, lastCall>>

\* await sleep(clientOptions.streamRate): the closure reads the clientOptions
\* of the call that created it
HookRateShared(r) ==
    LET other == CHOOSE s \in Slots : s # r
    IN IF pc[other] = "done" /\ out[other].kind \in {"options", "client"}
       THEN out[other].clientOptions.streamRate ELSE out[r].clientOptions.streamRate
HookRate(r) == out[r].clientOptions.streamRate

\* llmConfig.callbacks of the options returned to slot r
Callbacks(r) ==
    IF "callbacks" \in DOMAIN out[r].options.llmConfig
    THEN out[r].options.llmConfig.callbacks ELSE <<>>

\* the model run of slot r emits one token: every callback's handleLLMNewToken
\* runs once, and the token goes on to the consumer
EmitToken(r, tok) ==
    /\ pc[r] = "done"
    /\ out[r].kind = "options"
    /\ Len(stream[r].produced) < MaxTokens
    /\ stream' = [stream EXCEPT ![r] =
           [produced |-> Append(@.produced, tok),
            delivered |-> Append(@.delivered, tok),
            delays |-> @.delays \o [i \in 1..Len(Callbacks(r)) |-> HookRate(r)]]]
    /\ UNCHANGED <<env, locals, pc, req, out, keyStore, lastCall>>

\* the request of slot r ends
Respond(r) ==
    /\ pc[r] = "done"
    /\ pc' = [pc EXCEPT ![r] = "idle"]
    /\ req' = [req EXCEPT ![r] = NoRequest]
    /\ out' = [out EXCEPT ![r] = NoOutcome]
    /\ stream' = [stream EXCEPT ![r] = NoStream]
    /\ UNCHANGED <<env, locals, keyStore, lastCall>>

InitSlots ==
    /\ pc = [r \in Slots |-> "idle"]
    /\ req = [r \in Slots |-> NoRequest]
    /\ out = [r \in Slots |-> NoOutcome]
    /\ stream = [r \in Slots |-> NoStream]

\* one request at a time, over every configuration and request
Init ==
    /\ \E c \in Configs : env = c.env /\ locals = c.locals
    /\ InitSlots
    /\ keyStore = EmptyStore
    /\ lastCall = NoCall

Next ==
    \/ \E rq \in Requests : Call(1, rq)
    \/ Respond(1)

Spec == Init /\ [][Next]_vars

\* two requests in flight on the relay path, in options-only mode streaming
InitConcurrent ==
    /\ \E c \in ConfigsConcurrent : env = c.env /\ locals = c.locals
    /\ InitSlots
    /\ keyStore = EmptyStore
    /\ lastCall = NoCall

NextConcurrent ==
    \E r \in Slots :
        \/ \E rq \in RequestsConcurrent : Call(r, rq)
        \/ \E tok \in Tokens : EmitToken(r, tok)
        \/ Respond(r)

SpecConcurrent == InitConcurrent /\ [][NextConcurrent]_vars

\* the key routes
InitKeys ==
    /\ env = EnvBase
    /\ locals = LocalsBase
    /\ InitSlots
    /\ keyStore \in InitialStores
    /\ lastCall = NoCall

NextKeys ==
    \E caller \in Users :
        \/ \E body \in PutBodies : PutKey(caller, body)
        \/ \E name \in KeyNames : DeleteKey(caller, name)
        \/ \E all \in AllParams : DeleteAllKeys(caller, all)
        \/ \E name \in KeyNames : GetKey(caller, name)

SpecKeys == InitKeys /\ [][NextKeys]_vars

(***************************************************************************)
(* The claims                                                              *)
(***************************************************************************)
Returned(r) == pc[r] = "done" /\ out[r].kind \in {"client", "options"}
IsAzure(r) == Endpoint(req[r]) = EModelEndpoint.azureOpenAI

\* the request of slot r is on the Azure endpoint and its model is mapped to a
\* deployment group of the configuration
Matched(r) ==
    /\ IsAzure(r)
    /\ locals.azureOpenAI # <<>>
    /\ ModelName(req[r]) \in DOMAIN locals.azureOpenAI[1].modelGroupMap
    /\ locals.azureOpenAI[1].modelGroupMap[ModelName(req[r])].group
           \in DOMAIN locals.azureOpenAI[1].groupMap

MatchedGroup(r) ==
    locals.azureOpenAI[1].groupMap[
        locals.azureOpenAI[1].modelGroupMap[ModelName(req[r])].group]

\* C1: a PUT /keys naming 'openAI' answers 403, calls no updateUserKey and leaves
\* the key store as it was; a PUT with any other name answers 201 and upserts the
\* record of the caller under that name, and nothing else.
C1_PutLockedOrUpsertsCaller ==
    lastCall.route = "PUT /" =>
        IF lastCall.name = "openAI"
        THEN /\ lastCall.status = 403
             /\ lastCall.calls = <<>>
             /\ keyStore = lastCall.before
        ELSE /\ lastCall.status = 201
             /\ keyStore = [lastCall.before EXCEPT
                               ![<<lastCall.caller, lastCall.name>>] = lastCall.value]

\* C2: a DELETE /keys whose all parameter is not the literal 'true' answers 400
\* and calls no deleteUserKey; with all = 'true' it answers 204 and exactly the
\* caller's keys are gone.
C2_DeleteAllNeedsLiteralTrue ==
    lastCall.route = "DELETE /" =>
        IF lastCall.arg # "true"
        THEN /\ lastCall.status = 400
             /\ lastCall.calls = <<>>
             /\ keyStore = lastCall.before
        ELSE /\ lastCall.status = 204
             /\ lastCall.calls = <<"deleteUserKey">>
             /\ \A k \in DOMAIN keyStore :
                    keyStore[k] = IF k[1] = lastCall.caller THEN NoKey
                                  ELSE lastCall.before[k]

C2_Witness ==
    /\ lastCall.route = "DELETE /"
    /\ lastCall.arg = "TRUE"
    /\ lastCall.status = 400
    /\ \E k \in DOMAIN keyStore : k[1] = lastCall.caller /\ keyStore[k] # NoKey

\* C3: initializeClient returns nothing when the credential it resolved is empty
\* or undefined: every result carries a non-empty key, and a request whose
\* credential source (the relay key, the matched group's key, the process-wide
\* Azure key) is empty throws an error naming the endpoint.
C3_NoResultWithoutCredential ==
    pc[1] = "done" =>
        /\ Returned(1) => Truthy(out[1].apiKey)
        /\ ~IsAzure(1) /\ ~Truthy(env.OPENROUTER_KEY) =>
               /\ out[1].kind = "throw"
               /\ out[1].error.type = "Error"
               /\ out[1].error.message[1] = Endpoint(req[1])
        /\ IsAzure(1) /\ locals.azureOpenAI = <<>> /\ ~Truthy(env.AZURE_API_KEY) =>
               /\ out[1].kind = "throw"
               /\ out[1].error.type = "Error"
               /\ out[1].error.message[1] = EModelEndpoint.azureOpenAI
        /\ Matched(1) /\ ~Truthy(MatchedGroup(1).apiKey) =>
               /\ out[1].kind = "throw"
               /\ out[1].error.type = "Error"
               /\ out[1].error.message[1] = EModelEndpoint.azureOpenAI

C3_Witness ==
    /\ pc[1] = "done"
    /\ Endpoint(req[1]) = EModelEndpoint.openAI
    /\ env.OPENROUTER_KEY = ""
    /\ env.AZURE_API_KEY = Undefined
    /\ out[1].kind = "throw"
    /\ out[1].error.message = <<"openAI", " API Key not provided.">>

\* C4: whenever the all-endpoints configuration is present, the resolved
\* streamRate is its streamRate, whatever the request, the Azure configuration
\* and the endpoint configuration say.
C4_AllEndpointsRateWins ==
    Returned(1) /\ locals.all # <<>> =>
        out[1].clientOptions.streamRate = locals.all[1].streamRate

C4_Witness ==
    /\ Returned(1)
    /\ IsAzure(1)
    /\ req[1].endpointOption.streamRate = <<5>>
    /\ locals.azureOpenAI # <<>> /\ locals.azureOpenAI[1].streamRate = <<40>>
    /\ locals.openAI = <<[streamRate |-> <<12>>, titleModel |-> "gpt-3.5-turbo"]>>
    /\ locals.all = <<[streamRate |-> <<9>>]>>
    /\ out[1].clientOptions.streamRate = <<9>>

\* 30 for a name that contains 'gpt-4' as written, 17 for any other
ExpectedAzureRate(modelName) ==
    IF modelName \in {ModelGpt4Turbo, ModelInfix} THEN 30 ELSE 17

\* C5 as stated: with a matched deployment group and no all-endpoints override,
\* the resolved streamRate is the matched group's own streamRate when the group
\* sets one, and otherwise 30 or 17 by the model name.
C5_GroupRateOrHeuristic ==
    Returned(1) /\ Matched(1) /\ locals.all = <<>> =>
        out[1].clientOptions.streamRate =
            IF MatchedGroup(1).streamRate # <<>> THEN MatchedGroup(1).streamRate
            ELSE <<ExpectedAzureRate(ModelName(req[1]))>>

\* C5 amended: with a matched deployment group and no all-endpoints override,
\* the resolved streamRate is the streamRate of the Azure endpoint configuration
\* when that is set (0 included), whatever the group says, and otherwise 30 if
\* the model name contains 'gpt-4' (case-sensitive) and 17 if it does not.
C5_AzureConfigRateOrHeuristic ==
    Returned(1) /\ Matched(1) /\ locals.all = <<>> =>
        out[1].clientOptions.streamRate =
            IF locals.azureOpenAI[1].streamRate # <<>>
            THEN locals.azureOpenAI[1].streamRate
            ELSE <<ExpectedAzureRate(ModelName(req[1]))>>

C5_Witness ==
    /\ Returned(1) /\ Matched(1) /\ locals.all = <<>>
    /\ ModelName(req[1]) = ModelGpt4Turbo
    /\ locals.azureOpenAI[1].streamRate = <<>>
    /\ MatchedGroup(1).streamRate = <<50>>
    /\ req[1].endpointOption.streamRate = <<5>>
    /\ out[1].clientOptions.streamRate = <<30>>

\* C6: in options-only mode the returned options carry exactly one callback, a
\* handleLLMNewToken hook, when the resolved streamRate is set (and not 0), and
\* otherwise are what getLLMConfig returned, with no callbacks field.
C6_OneHookIffStreamRate ==
    pc[1] = "done" /\ out[1].kind = "options" =>
        IF out[1].clientOptions.streamRate \notin {<<>>, <<0>>}
        THEN /\ "callbacks" \in DOMAIN out[1].options.llmConfig
             /\ Len(out[1].options.llmConfig.callbacks) = 1
             /\ DOMAIN out[1].options.llmConfig.callbacks[1] = {"handleLLMNewToken"}
        ELSE /\ "callbacks" \notin DOMAIN out[1].options.llmConfig
             /\ out[1].options = getLLMConfig(out[1].apiKey, out[1].clientOptions)

C6_Witness ==
    /\ pc[1] = "done" /\ out[1].kind = "options"
    /\ out[1].clientOptions.streamRate = <<12>>
    /\ Len(out[1].options.llmConfig.callbacks) = 1

\* C7: off the Azure endpoint every result carries the relay key OPENROUTER_KEY:
\* two requests in flight under one environment get the same credential whatever
\* their body, user and endpointOption, OPENAI_API_KEY is never the credential,
\* and no user key is looked up.
C7_RelayKeyForEveryRequest ==
    /\ \A r \in Slots :
           pc[r] = "done" /\ ~IsAzure(r) =>
               /\ Returned(r) => out[r].apiKey = env.OPENROUTER_KEY
               /\ Returned(r) /\ env.OPENAI_API_KEY # Undefined =>
                      out[r].apiKey # env.OPENAI_API_KEY
               /\ \A i \in 1..Len(out[r].calls) :
                      out[r].calls[i] \notin {"getUserKeyValues", "checkUserKeyExpiry"}
    /\ \A r1, r2 \in Slots :
           /\ pc[r1] = "done" /\ pc[r2] = "done" /\ ~IsAzure(r1) /\ ~IsAzure(r2)
              => out[r1].kind = "throw" <=> out[r2].kind = "throw"
           /\ Returned(r1) /\ Returned(r2) /\ ~IsAzure(r1) /\ ~IsAzure(r2)
              => out[r1].apiKey = out[r2].apiKey

C7_Witness ==
    /\ Returned(1) /\ Returned(2)
    /\ env.OPENAI_API_KEY = "sk-openai"
    /\ req[1].user # req[2].user
    /\ req[1].body.key # req[2].body.key
    /\ req[1].body.endpoint # req[2].body.endpoint
    /\ req[1].endpointOption # req[2].endpointOption
    /\ out[1].apiKey = "sk-or-relay" /\ out[2].apiKey = "sk-or-relay"

\* the headers the resolver starts from: the group's, then the request's
MergedHeaders(r) ==
    resolveHeaders(MergeHeaders(HeadersOrEmpty(MatchedGroup(r).additionalHeaders),
                                HeadersOrEmpty(req[r].endpointOption.headers)), env)

\* C8: with a matched deployment group, a serverless group puts the resolved key
\* in the headers as 'api-key', leaves the Azure block false and sets
\* defaultQuery's 'api-version' exactly when a version is configured; any other
\* group gets no header from the resolver and its azureOptions as Azure block.
C8_ServerlessKeyInHeader ==
    Returned(1) /\ Matched(1) =>
        LET co == out[1].clientOptions
            g == MatchedGroup(1)
        IN IF g.serverless = JsTrue
           THEN /\ co.headers[1]["api-key"] = out[1].apiKey
                /\ out[1].apiKey = g.apiKey
                /\ co.azure = AzureFalse
                /\ IF g.version # ""
                   THEN co.defaultQuery = ("api-version" :> g.version)
                   ELSE co.defaultQuery = <<>>
           ELSE /\ co.headers = <<MergedHeaders(1)>>
                /\ co.azure.is = "options"
                /\ co.azure.options.azureOpenAIApiKey = g.apiKey
                /\ co.azure.options.azureOpenAIApiVersion = g.version

C8_Witness ==
    /\ Returned(1) /\ Matched(1)
    /\ MatchedGroup(1).serverless = JsTrue
    /\ MatchedGroup(1).version = ""
    /\ req[1].endpointOption.headers = <<("api-key" :> "user-header")>>
    /\ out[1].clientOptions.headers[1]["api-key"] = "az-g1-key"
    /\ out[1].clientOptions.defaultQuery = <<>>

\* C9: a stream of options-only mode with a stream rate sleeps once per token,
\* each time for the rate resolved for its own request, and passes every token
\* on unchanged; a stream without a rate never sleeps.
C9_OneOwnDelayPerToken ==
    \A r \in Slots :
        pc[r] = "done" /\ out[r].kind = "options" =>
            /\ stream[r].delivered = stream[r].produced
            /\ IF out[r].clientOptions.streamRate \notin {<<>>, <<0>>}
               THEN stream[r].delays =
                        [i \in 1..Len(stream[r].produced) |->
                            out[r].clientOptions.streamRate]
               ELSE stream[r].delays = <<>>

C9_Witness ==
    /\ pc[1] = "done" /\ out[1].kind = "options"
    /\ pc[2] = "done" /\ out[2].kind = "options"
    /\ Len(stream[1].produced) = MaxTokens /\ Len(stream[2].produced) >= 1
    /\ stream[1].produced[1] # stream[1].produced[2]
    /\ stream[1].delays = [i \in 1..MaxTokens |-> <<5>>]
    /\ stream[2].delays = [i \in 1..Len(stream[2].produced) |-> <<25>>]

\* C10: contextStrategy, proxy and debug come from the environment unless the
\* endpointOption has a field of that name, which then wins; off the Azure
\* endpoint reverseProxyUrl is the relay URL unless the endpointOption has a
\* reverseProxyUrl field, which then wins, and no environment variable counts.
C10_EndpointOptionOverridesDefaults ==
    Returned(1) =>
        LET co == out[1].clientOptions
            eo == req[1].endpointOption
        IN /\ co.contextStrategy =
                  IF eo.contextStrategy # Absent THEN eo.contextStrategy
                  ELSE IF env.OPENAI_SUMMARIZE = "true" THEN "summarize" ELSE Null
           /\ co.proxy =
                  IF eo.proxy # Absent THEN eo.proxy
                  ELSE IF env.PROXY = Undefined THEN Null ELSE env.PROXY
           /\ co.debug =
                  IF eo.debug # Absent THEN eo.debug
                  ELSE IF env.DEBUG_OPENAI = "true" THEN JsTrue ELSE JsFalse
           /\ ~IsAzure(1) =>
                  co.reverseProxyUrl =
                      IF eo.reverseProxyUrl # Absent THEN eo.reverseProxyUrl
                      ELSE "https://openrouter.ai/api/v1"

C10_Witness ==
    /\ Returned(1) /\ ~IsAzure(1)
    /\ env.OPENAI_REVERSE_PROXY = "https://openai-proxy.example/v1"
    /\ env.AZURE_OPENAI_BASEURL = "https://azure-base.example"
    /\ env.PROXY = "http://proxy:8080"
    /\ req[1].endpointOption.reverseProxyUrl = Absent
    /\ req[1].endpointOption.proxy = "http://user-proxy:3128"
    /\ out[1].clientOptions.reverseProxyUrl = "https://openrouter.ai/api/v1"
    /\ out[1].clientOptions.proxy = "http://user-proxy:3128"

====
